---- MODULE Spec2Model ----
(***************************************************************************)
(* Model of WatchdogClient::run (src/src/service/client/watchdog_client.rs) *)
(* : the poll loop that detects stalled event keys in the context          *)
(* collection, rebuilds their context tree, looks the event up and         *)
(* republishes the envelope to the redis work queue.                       *)
(*                                                                         *)
(* Times are in milliseconds, as Utc::now().timestamp_millis() gives them. *)
(***************************************************************************)
EXTENDS Integers, Sequences, FiniteSets, TLC

VARIABLES
    contextLog,     \* the context collection: a set of context documents
    eventStore,     \* the events collection: a set of events
    queue,          \* the redis list cache.queue_name, head first
    now,            \* Utc::now() in milliseconds
    event_timeout,  \* self.watchdog.event_timeout, in seconds
    pc,             \* the position of run() in its poll loop
    count,          \* line 99
    timestamp,      \* line 100: the cutoff of the cycle
    event_keys,     \* line 146: the rows the aggregation cursor still holds
    event_key,      \* line 155
    root_context,   \* line 182
    results,        \* line 199: the pipeline fetch results not yet inspected
    context,        \* line 203: the pipeline context being refreshed
    ext_results,    \* line 219: the extractor fetch results not yet inspected
    payload,        \* line 260
    lastLog,        \* the message of the last tracing call of run()
    run_result,     \* what run() returned: "" while it runs, else its error
    slept,          \* run() has slept (line 294) since its last aggregation
    resetter,       \* lines 58-72: the position of each counter resetter task
    del_result,     \* lines 60, 69: the result of the del the task sleeps after
    counters,       \* the throughput counter keys that exist in the cache
    in_flight,      \* lines 188-199, 210-219: the fetches join_all still polls
    fetched,        \* the outputs of the fetches of join_all that are ready
    other_pc,       \* a second producer of the queue: its position
    other_payload,  \* a second producer of the queue: its payload
    access_key,     \* the argument of EncryptedAccessKey::parse
    encrypted,      \* what EncryptedAccessKey::parse returned
    displayed       \* what to_string() of the parsed key returned

vars == <<contextLog, eventStore, queue, now, event_timeout, pc, count,
          timestamp, event_keys, event_key, root_context, results, context,
          ext_results, payload, lastLog, run_result, slept, resetter, del_result,
          counters, in_flight, fetched, other_pc, other_payload, access_key,
          encrypted, displayed>>

\* the state of the counter resetter tasks
tasks == <<resetter, del_result, counters>>
stores == <<contextLog, eventStore>>
locals == <<event_key, root_context, results, context, ext_results, payload>>
\* the fetches of a join_all in progress
fanout == <<in_flight, fetched>>
\* the other producer of the work queue
producer == <<other_pc, other_payload>>
\* an access key, parsed and displayed
access == <<access_key, encrypted, displayed>>
\* what the steps of run(), of its tasks and of the clock leave alone
aside == <<fanout, producer, access>>

(***************************************************************************)
(* Bounds of the model.                                                    *)
(***************************************************************************)
\* the clock advances at most this many seconds past its initial value
MaxTicks == 1
\* the stall detector alone is run on every log of at most this many documents
MaxDocs == 2
\* ... with liveness windows of 1..MaxTimeout seconds
MaxTimeout == 2

\* line 101: event_timeout * 1_000
MsPerSec == 1000

(***************************************************************************)
(* Context documents.  stage is the tagged variant; map is the child map   *)
(* that ProcessingPipelines / ExecutingExtractors carry (empty otherwise). *)
(***************************************************************************)
NoKey == "-"
\* the _id of the group of documents that have no eventKey field
NullId == "null"

NoMap == [k \in {} |-> 0]

Stage(tag, map) == [tag |-> tag, map |-> map]
Leaf(tag) == Stage(tag, NoMap)

NullDoc ==
    [type |-> "none", eventKey |-> NoKey, pipelineKey |-> NoKey,
     extractorKey |-> NoKey, stage |-> Leaf("none"), status |-> "none",
     timestamp |-> 0]

RootContext(e, stage, status, ts) ==
    [type |-> "root", eventKey |-> e, pipelineKey |-> NoKey,
     extractorKey |-> NoKey, stage |-> stage, status |-> status,
     timestamp |-> ts]

PipelineContext(e, p, stage, status, ts) ==
    [type |-> "pipeline", eventKey |-> e, pipelineKey |-> p,
     extractorKey |-> NoKey, stage |-> stage, status |-> status,
     timestamp |-> ts]

ExtractorContext(e, p, x, stage, status, ts) ==
    [type |-> "extractor", eventKey |-> e, pipelineKey |-> p,
     extractorKey |-> x, stage |-> stage, status |-> status,
     timestamp |-> ts]

Statuses == {"Succeeded", "Failed", "Dropped"}

(***************************************************************************)
(* Helpers.                                                                *)
(***************************************************************************)
Max(S) == CHOOSE m \in S : \A n \in S : n <= m

RECURSIVE SeqsOf(_)
\* every sequence that enumerates the set S once
SeqsOf(S) ==
    IF S = {} THEN {<<>>}
    ELSE UNION {{<<x>> \o s : s \in SeqsOf(S \ {x})} : x \in S}

Range(s) == {s[i] : i \in DOMAIN s}

RemoveAt(s, i) == SubSeq(s, 1, i - 1) \o SubSeq(s, i + 1, Len(s))

(***************************************************************************)
(* The stall detector: the aggregation pipeline of lines 103-144.          *)
(***************************************************************************)
\* line 116: "_id": "$eventKey"
GroupIds(log) == {d.eventKey : d \in log}

Group(log, id) == {d \in log : d.eventKey = id}

\* mutant: $first is taken among the root documents of the group
FirstDocs_Root(log, id) ==
    {d \in Group(log, id) :
        /\ d.type = "root"
        /\ \A o \in Group(log, id) : o.type = "root" => o.timestamp <= d.timestamp}

\* lines 105-109 and 117-122: after the descending sort, $first is a document
\* of the group with the greatest timestamp (any one of them on a tie)
FirstDocs(log, id) ==
    {d \in Group(log, id) : \A o \in Group(log, id) : o.timestamp <= d.timestamp}

\* mutant: a document at the cutoff counts as recent
RecentCount_AtCutoff(log, id, cutoff) ==
    Cardinality({d \in Group(log, id) : d.timestamp >= cutoff})

\* lines 123-131: the number of documents of the group later than the cutoff
RecentCount(log, id, cutoff) ==
    Cardinality({d \in Group(log, id) : d.timestamp > cutoff})

\* lines 115-133: the row of the group when `first` is its $first document
GroupRow(log, id, first, cutoff) ==
    [_id |-> id, stage |-> first.stage.tag, status |-> first.status,
     count |-> RecentCount(log, id, cutoff)]

\* mutant: $match without the status condition
MatchRow_AnyStatus(row) ==
    /\ row.count = 0
    /\ row.stage # "Finished"

\* lines 137-143: $match
MatchRow(row) ==
    /\ row.count = 0
    /\ row.stage # "Finished"
    /\ row.status = "Succeeded"

\* the rows the pipeline can produce for one group
GroupRows(log, id, cutoff) ==
    {GroupRow(log, id, first, cutoff) : first \in FirstDocs(log, id)}

\* the sets of rows the aggregation can return: one row at most per group,
\* the row of one of its $first documents, when it passes $match
AggregateResults(log, cutoff) ==
    LET ids == GroupIds(log)
        choices == {f \in [ids -> UNION {GroupRows(log, id, cutoff) : id \in ids}] :
                       \A id \in ids : f[id] \in GroupRows(log, id, cutoff)}
    IN  {{f[id] : id \in {i \in ids : MatchRow(f[i])}} : f \in choices}

\* mutant: the window is subtracted in seconds from the clock in milliseconds
Cutoff_Seconds(t, timeout) == t - timeout

\* lines 100-101
Cutoff(t, timeout) == t - timeout * MsPerSec

(***************************************************************************)
(* The stores, as run() reads them.                                        *)
(***************************************************************************)
\* a fetch result: Err(_), Ok(None) or Ok(Some(doc))
Err == [ok |-> FALSE, doc |-> NullDoc]
None == [ok |-> TRUE, doc |-> NullDoc]
Some(d) == [ok |-> TRUE, doc |-> d]

\* mutant: sort timestamp 1, the first document that matches
Latest_Ascending(docs) == {d \in docs : \A o \in docs : o.timestamp >= d.timestamp}

\* lines 160-162: sort timestamp -1, the first document that matches
Latest(docs) == {d \in docs : \A o \in docs : o.timestamp <= d.timestamp}

\* lines 168-171
RootFilter(log, e) ==
    {d \in log : d.eventKey = e /\ d.type = "root"}

\* lines 190-194: the filter is built from the embedded pipeline context p
PipelineFilter(log, p) ==
    {d \in log : /\ d.eventKey = p.eventKey
                 /\ d.pipelineKey = p.pipelineKey
                 /\ d.type = "pipeline"}

\* lines 211-216: the filter is built from the embedded extractor context e
ExtractorFilter(log, e) ==
    {d \in log : /\ d.eventKey = e.eventKey
                 /\ d.pipelineKey = e.pipelineKey
                 /\ d.extractorKey = e.extractorKey
                 /\ d.type = "extractor"}

\* what find_one can return for the documents a filter selects
FindOne(docs) ==
    {Err} \cup (IF docs = {} THEN {None} ELSE {Some(d) : d \in Latest(docs)})

\* lines 188-199 and 210-219: join_all over map.values(), in the iteration
\* order of the map; outcomes[k] is what the fetch for the value of k can return
JoinAll(outcomes) ==
    LET n == Cardinality(DOMAIN outcomes)
        all == UNION {outcomes[k] : k \in DOMAIN outcomes}
    IN  UNION {{r \in [1..n -> all] : \A i \in 1..n : r[i] \in outcomes[order[i]]}
               : order \in SeqsOf(DOMAIN outcomes)}

\* lines 188-197: one find_one per embedded pipeline context
PipelineFetches(log, map) ==
    [k \in DOMAIN map |-> FindOne(PipelineFilter(log, map[k]))]

\* lines 210-218: one find_one per embedded extractor context
ExtractorFetches(log, map) ==
    [k \in DOMAIN map |-> FindOne(ExtractorFilter(log, map[k]))]

\* lines 228 and 237: map.insert(key, value)
Insert(map, key, value) ==
    [k \in DOMAIN map \cup {key} |-> IF k = key THEN value ELSE map[k]]

\* an event of the event store
Event(e) == [key |-> e]

\* lines 249-252: event_store.get_one_by_id(event_key)
GetOneById(store, e) ==
    {Err} \cup (IF Event(e) \in store THEN {Some(Event(e))} ELSE {None})

(***************************************************************************)
(* serde_json::to_vec(&event_with_context), line 260: the envelope as a    *)
(* sequence of tokens.  The entries of a child map are written in the      *)
(* iteration order of the map, which is not fixed.                         *)
(***************************************************************************)
RECURSIVE SerContext(_), SerMap(_, _)
SerContext(d) ==
    {<<d.type, d.eventKey, d.pipelineKey, d.extractorKey, d.status,
       ToString(d.timestamp), d.stage.tag, "{">> \o m \o <<"}">>
        : m \in SerMap(d.stage.map, DOMAIN d.stage.map)}

SerMap(map, keys) ==
    IF keys = {} THEN {<<>>}
    ELSE UNION {{<<k>> \o c \o rest :
                    c \in SerContext(map[k]), rest \in SerMap(map, keys \ {k})}
                : k \in keys}

\* line 258: EventWithContext::new(event, root_context); line 260
Serialize(event, root) ==
    {<<"event", event.key, "context">> \o c : c \in SerContext(root)}

\* lines 267-273: cache.lpos(queue_name, payload)
Lpos(q, p) ==
    IF \E i \in DOMAIN q : q[i] = p
    THEN (CHOOSE i \in DOMAIN q : q[i] = p /\ \A j \in 1..(i - 1) : q[j] # p) - 1
    ELSE -1

\* mutant: the payload is pushed to the tail of the list
Lpush_Tail(q, p) == q \o <<p>>

\* line 284: cache.lpush(queue_name, payload)
Lpush(q, p) == <<p>> \o q

(***************************************************************************)
(* The poll loop of run(), lines 98-295.  pc is the await run() is at.     *)
(***************************************************************************)
NoLocals ==
    /\ event_key' = NoKey
    /\ root_context' = NullDoc
    /\ results' = <<>>
    /\ context' = NullDoc
    /\ ext_results' = <<>>
    /\ payload' = <<>>

\* `continue` / `continue 'outer` inside the while loop of line 154, after
\* the tracing call that precedes it
Continue(msg) ==
    /\ pc' = "try_next"
    /\ lastLog' = msg
    /\ NoLocals
    /\ UNCHANGED <<stores, queue, now, event_timeout, aside, tasks, slept, run_result, count, timestamp, event_keys>>

\* the `?` of lines 154, 252 and 277: run() returns the error
Return(msg, error) ==
    /\ pc' = "returned"
    /\ lastLog' = msg
    /\ run_result' = error
    /\ NoLocals
    /\ UNCHANGED <<stores, queue, now, event_timeout, aside, tasks, slept, count, timestamp, event_keys>>

\* lines 99-101 and 146-147: a new cycle whose aggregation succeeds
AggregateOk ==
    /\ pc = "loop_head"
    /\ count' = 0
    /\ timestamp' = Cutoff(now, event_timeout)
    /\ \E rows \in AggregateResults(contextLog, Cutoff(now, event_timeout)) :
          event_keys' \in SeqsOf(rows)
    /\ pc' = "try_next"
    /\ lastLog' = ""
    /\ slept' = FALSE
    /\ UNCHANGED <<stores, queue, now, event_timeout, aside, tasks, run_result, locals>>

\* mutant: the aggregation fails, and `?` returns the error
AggregateErr_Return ==
    /\ pc = "loop_head"
    /\ count' = 0
    /\ timestamp' = Cutoff(now, event_timeout)
    /\ event_keys' = <<>>
    /\ pc' = "returned"
    /\ run_result' = "Failed to fetch event keys"
    /\ lastLog' = "Failed to fetch event keys"
    /\ slept' = FALSE
    /\ UNCHANGED <<stores, queue, now, event_timeout, aside, tasks, locals>>

\* lines 99-101 and 148-151: the aggregation fails, `continue` of the loop
AggregateErr ==
    /\ pc = "loop_head"
    /\ count' = 0
    /\ timestamp' = Cutoff(now, event_timeout)
    /\ event_keys' = <<>>
    /\ pc' = "loop_head"
    /\ lastLog' = "Failed to fetch event keys"
    /\ slept' = FALSE
    /\ UNCHANGED <<stores, queue, now, event_timeout, aside, tasks, run_result, locals>>

\* line 154: try_next() fails
TryNextErr ==
    /\ pc = "try_next"
    /\ Return("", "cursor error")

\* line 154: the cursor is exhausted; lines 290-292
TryNextNone ==
    /\ pc = "try_next"
    /\ event_keys = <<>>
    /\ pc' = "sleep"
    /\ lastLog' = IF count > 0 THEN "Republished new events" ELSE ""
    /\ UNCHANGED <<stores, queue, now, event_timeout, aside, tasks, slept, run_result, count, timestamp,
                   event_keys, locals>>

\* lines 154-158: a row whose _id is no string
TryNextNoId ==
    /\ pc = "try_next"
    /\ event_keys # <<>>
    /\ Head(event_keys)._id = NullId
    /\ pc' = "try_next"
    /\ event_keys' = Tail(event_keys)
    /\ lastLog' = "Could not get _id out of event keys response"
    /\ UNCHANGED <<stores, queue, now, event_timeout, aside, tasks, slept, run_result, count, timestamp, locals>>

\* lines 154-155: the next event key
TryNextSome ==
    /\ pc = "try_next"
    /\ event_keys # <<>>
    /\ Head(event_keys)._id # NullId
    /\ event_key' = Head(event_keys)._id
    /\ event_keys' = Tail(event_keys)
    /\ pc' = "find_root"
    /\ lastLog' = ""
    /\ UNCHANGED <<stores, queue, now, event_timeout, aside, tasks, slept, run_result, count, timestamp,
                   root_context, results, context, ext_results, payload>>

\* lines 165-181: the root fetch fails
FindRootErr ==
    /\ pc = "find_root"
    /\ Err \in FindOne(RootFilter(contextLog, event_key))
    /\ Continue("Failed to fetch root context")

\* mutant: a missing root context is returned as an error of run()
FindRootNone_Return ==
    /\ pc = "find_root"
    /\ None \in FindOne(RootFilter(contextLog, event_key))
    /\ Return("Did not find root context", "no root context")

\* lines 182-185: no root context
FindRootNone ==
    /\ pc = "find_root"
    /\ None \in FindOne(RootFilter(contextLog, event_key))
    /\ Continue("Did not find root context")

\* mutant: the latest root context; its pipelines are fetched whatever its stage
FindRootSome_AlwaysJoin ==
    /\ pc = "find_root"
    /\ \E r \in FindOne(RootFilter(contextLog, event_key)) :
          /\ r.ok /\ r.doc # NullDoc
          /\ root_context' = r.doc
    /\ pc' = "join_pipelines"
    /\ lastLog' = ""
    /\ UNCHANGED <<stores, queue, now, event_timeout, aside, tasks, slept, run_result, count, timestamp,
                   event_keys, event_key, results, context, ext_results, payload>>

\* lines 165-187: the latest root context; its stage decides what follows
FindRootSome ==
    /\ pc = "find_root"
    /\ \E r \in FindOne(RootFilter(contextLog, event_key)) :
          /\ r.ok /\ r.doc # NullDoc
          /\ root_context' = r.doc
          /\ pc' = IF r.doc.stage.tag = "ProcessingPipelines"
                   THEN "join_pipelines" ELSE "get_event"
          /\ lastLog' = IF r.doc.stage.tag = "ProcessingPipelines"
                        THEN "" ELSE "Republishing unresponsive context"
    /\ UNCHANGED <<stores, queue, now, event_timeout, aside, tasks, slept, run_result, count, timestamp,
                   event_keys, event_key, results, context, ext_results, payload>>

\* lines 188-199: the pipeline fetches, joined
JoinPipelines ==
    /\ pc = "join_pipelines"
    /\ results' \in JoinAll(PipelineFetches(contextLog, root_context.stage.map))
    /\ pc' = "pipeline_results"
    /\ lastLog' = ""
    /\ UNCHANGED <<stores, queue, now, event_timeout, aside, tasks, slept, run_result, count, timestamp,
                   event_keys, event_key, root_context, context, ext_results,
                   payload>>

\* line 200: every result was inspected; line 247
PipelinesDone ==
    /\ pc = "pipeline_results"
    /\ results = <<>>
    /\ pc' = "get_event"
    /\ lastLog' = "Republishing unresponsive context"
    /\ UNCHANGED <<stores, queue, now, event_timeout, aside, tasks, slept, run_result, count, timestamp,
                   event_keys, locals>>

\* lines 239-242
PipelineErr ==
    /\ pc = "pipeline_results"
    /\ results # <<>>
    /\ ~Head(results).ok
    /\ Continue("Could not fetch pipeline context")

\* mutant: `continue` of the inner loop, the embedded entry is kept
PipelineNone_KeepEmbedded ==
    /\ pc = "pipeline_results"
    /\ results # <<>>
    /\ Head(results) = None
    /\ results' = Tail(results)
    /\ pc' = "pipeline_results"
    /\ lastLog' = "Did not find pipeline context"
    /\ UNCHANGED <<stores, queue, now, event_timeout, aside, tasks, slept, run_result, count,
                   timestamp, event_keys, event_key, root_context, context,
                   ext_results, payload>>

\* lines 203-206
PipelineNone ==
    /\ pc = "pipeline_results"
    /\ results # <<>>
    /\ Head(results) = None
    /\ Continue("Did not find pipeline context")

\* lines 202-209 and 237: a pipeline context that needs no extractor refresh
\* replaces the entry of its pipeline key
PipelineSome ==
    /\ pc = "pipeline_results"
    /\ results # <<>>
    /\ Head(results).ok /\ Head(results).doc # NullDoc
    /\ Head(results).doc.stage.tag # "ExecutingExtractors"
    /\ root_context' =
          [root_context EXCEPT !.stage.map =
              Insert(@, Head(results).doc.pipelineKey, Head(results).doc)]
    /\ results' = Tail(results)
    /\ pc' = "pipeline_results"
    /\ lastLog' = ""
    /\ UNCHANGED <<stores, queue, now, event_timeout, aside, tasks, slept, run_result, count, timestamp,
                   event_keys, event_key, context, ext_results, payload>>

\* lines 202-219: a pipeline context in ExecutingExtractors; its extractor
\* fetches, joined
JoinExtractors ==
    /\ pc = "pipeline_results"
    /\ results # <<>>
    /\ Head(results).ok /\ Head(results).doc # NullDoc
    /\ Head(results).doc.stage.tag = "ExecutingExtractors"
    /\ context' = Head(results).doc
    /\ ext_results' \in
          JoinAll(ExtractorFetches(contextLog, Head(results).doc.stage.map))
    /\ results' = Tail(results)
    /\ pc' = "extractor_results"
    /\ lastLog' = ""
    /\ UNCHANGED <<stores, queue, now, event_timeout, aside, tasks, slept, run_result, count, timestamp,
                   event_keys, event_key, root_context, payload>>

\* lines 230-233
ExtractorErr ==
    /\ pc = "extractor_results"
    /\ ext_results # <<>>
    /\ ~Head(ext_results).ok
    /\ Continue("Did not find extractor context: error")

\* mutant: `continue` of the inner loop, the embedded entry is kept
ExtractorNone_KeepEmbedded ==
    /\ pc = "extractor_results"
    /\ ext_results # <<>>
    /\ Head(ext_results) = None
    /\ ext_results' = Tail(ext_results)
    /\ pc' = "extractor_results"
    /\ lastLog' = "Did not find extractor context"
    /\ UNCHANGED <<stores, queue, now, event_timeout, aside, tasks, slept, run_result, count,
                   timestamp, event_keys, event_key, root_context, results,
                   context, payload>>

\* lines 223-226
ExtractorNone ==
    /\ pc = "extractor_results"
    /\ ext_results # <<>>
    /\ Head(ext_results) = None
    /\ Continue("Did not find extractor context")

\* lines 222-228: an extractor context replaces the entry of its extractor key
ExtractorSome ==
    /\ pc = "extractor_results"
    /\ ext_results # <<>>
    /\ Head(ext_results).ok /\ Head(ext_results).doc # NullDoc
    /\ context' =
          [context EXCEPT !.stage.map =
              Insert(@, Head(ext_results).doc.extractorKey, Head(ext_results).doc)]
    /\ ext_results' = Tail(ext_results)
    /\ pc' = "extractor_results"
    /\ lastLog' = ""
    /\ UNCHANGED <<stores, queue, now, event_timeout, aside, tasks, slept, run_result, count, timestamp,
                   event_keys, event_key, root_context, results, payload>>

\* lines 220 and 237: every extractor result was inspected; the refreshed
\* pipeline context replaces the entry of its pipeline key
ExtractorsDone ==
    /\ pc = "extractor_results"
    /\ ext_results = <<>>
    /\ root_context' =
          [root_context EXCEPT !.stage.map =
              Insert(@, context.pipelineKey, context)]
    /\ context' = NullDoc
    /\ pc' = "pipeline_results"
    /\ lastLog' = ""
    /\ UNCHANGED <<stores, queue, now, event_timeout, aside, tasks, slept, run_result, count, timestamp,
                   event_keys, event_key, results, ext_results, payload>>

\* lines 249-252: the event lookup fails, and `?` returns the error
GetEventErr ==
    /\ pc = "get_event"
    /\ Err \in GetOneById(eventStore, event_key)
    /\ Return("", "could not fetch event for context")

\* mutant: the event is missing, and the envelope is built all the same
GetEventNone_Proceed ==
    /\ pc = "get_event"
    /\ None \in GetOneById(eventStore, event_key)
    /\ payload' \in Serialize(Event(event_key), root_context)
    /\ pc' = "lpos"
    /\ lastLog' = "Event does not exist"
    /\ UNCHANGED <<stores, queue, now, event_timeout, aside, tasks, slept, run_result, count, timestamp,
                   event_keys, event_key, root_context, results, context,
                   ext_results>>

\* lines 253-256
GetEventNone ==
    /\ pc = "get_event"
    /\ None \in GetOneById(eventStore, event_key)
    /\ Continue("Event does not exist")

\* lines 249-266: the event is found, the envelope is serialized
GetEventSome ==
    /\ pc = "get_event"
    /\ \E r \in GetOneById(eventStore, event_key) :
          /\ r.ok /\ r.doc # NullDoc
          /\ payload' \in Serialize(r.doc, root_context)
    /\ pc' = "lpos"
    /\ lastLog' = ""
    /\ UNCHANGED <<stores, queue, now, event_timeout, aside, tasks, slept, run_result, count, timestamp,
                   event_keys, event_key, root_context, results, context,
                   ext_results>>

\* lines 249-265: the event is found, serde_json::to_vec fails
SerializeErr ==
    /\ pc = "get_event"
    /\ \E r \in GetOneById(eventStore, event_key) : r.ok /\ r.doc # NullDoc
    /\ Continue("Could not serialize payload")

\* lines 267-277: lpos fails, and `?` returns the error
LposErr ==
    /\ pc = "lpos"
    /\ Return("Could not check if context is already in redis", "io_err")

\* mutant: the payload is in the queue already, and is pushed again
LposSome_Push ==
    /\ pc = "lpos"
    /\ Lpos(queue, payload) >= 0
    /\ pc' = "lpush"
    /\ lastLog' = "Unresponsive context is already in redis"
    /\ UNCHANGED <<stores, queue, now, event_timeout, aside, tasks, slept, run_result, count,
                   timestamp, event_keys, locals>>

\* mutant: the payload is in the queue already, and the skip is tallied
LposSome_Tally ==
    /\ pc = "lpos"
    /\ Lpos(queue, payload) >= 0
    /\ count' = count + 1
    /\ pc' = "try_next"
    /\ lastLog' = "Unresponsive context is already in redis"
    /\ NoLocals
    /\ UNCHANGED <<stores, queue, now, event_timeout, aside, tasks, slept, run_result,
                   timestamp, event_keys>>

\* mutant: an envelope of the event key is in the queue already
LposSome_ByKey ==
    /\ pc = "lpos"
    /\ \E i \in DOMAIN queue : Len(queue[i]) > 1 /\ queue[i][2] = event_key
    /\ Continue("Unresponsive context is already in redis")

\* lines 267-282: the payload is in the queue already
LposSome ==
    /\ pc = "lpos"
    /\ Lpos(queue, payload) >= 0
    /\ Continue("Unresponsive context is already in redis")

\* mutant: the result of the lookup is not looked at
LposNone_Unchecked ==
    /\ pc = "lpos"
    /\ pc' = "lpush"
    /\ lastLog' = ""
    /\ UNCHANGED <<stores, queue, now, event_timeout, aside, tasks, slept, run_result, count,
                   timestamp, event_keys, locals>>

\* mutant: the payload is not in the queue, and is skipped
LposNone_Skip ==
    /\ pc = "lpos"
    /\ Lpos(queue, payload) < 0
    /\ Continue("Unresponsive context is already in redis")

\* lines 267-279: the payload is not in the queue
LposNone ==
    /\ pc = "lpos"
    /\ Lpos(queue, payload) < 0
    /\ pc' = "lpush"
    /\ lastLog' = ""
    /\ UNCHANGED <<stores, queue, now, event_timeout, aside, tasks, slept, run_result, count, timestamp,
                   event_keys, locals>>

\* lines 284-285: the push succeeds
LpushOk ==
    /\ pc = "lpush"
    /\ queue' = Lpush(queue, payload)
    /\ count' = count + 1
    /\ pc' = "try_next"
    /\ lastLog' = ""
    /\ NoLocals
    /\ UNCHANGED <<stores, now, event_timeout, aside, tasks, slept, run_result, timestamp, event_keys>>

\* mutant: the push fails, and `?` returns the error
LpushErr_Return ==
    /\ pc = "lpush"
    /\ Return("Could not publish event to redis", "io_err")

\* lines 284-286: the push fails
LpushErr ==
    /\ pc = "lpush"
    /\ Continue("Could not publish event to redis")

\* line 294
Sleep ==
    /\ pc = "sleep"
    /\ pc' = "loop_head"
    /\ lastLog' = ""
    /\ slept' = TRUE
    /\ UNCHANGED <<stores, queue, now, event_timeout, aside, tasks, run_result, count, timestamp,
                   event_keys, locals>>

(***************************************************************************)
(* The environment: time passes, and the consumers of the work queue take  *)
(* entries from it.                                                        *)
(***************************************************************************)
StartTime == 3 * MsPerSec

Tick ==
    /\ now < StartTime + MaxTicks * MsPerSec
    /\ now' = now + MsPerSec
    /\ UNCHANGED <<stores, queue, event_timeout, aside, tasks, slept, run_result, pc, count, timestamp,
                   event_keys, locals, lastLog>>

Consume ==
    /\ \E i \in DOMAIN queue : queue' = RemoveAt(queue, i)
    /\ UNCHANGED <<stores, now, event_timeout, aside, tasks, slept, run_result, pc, count, timestamp,
                   event_keys, locals, lastLog>>

(***************************************************************************)
(* Startup of run(), lines 55-96, and the two counter resetter tasks it    *)
(* spawns, lines 58-72.                                                    *)
(***************************************************************************)
\* lines 56 and 65: the key each resetter deletes
Resetters == {"event_throughput_key", "api_throughput_key"}

\* line 55: the cache connection fails, and `?` returns the error
ConnectCacheErr ==
    /\ pc = "connect_cache"
    /\ pc' = "returned"
    /\ run_result' = "could not connect to the cache"
    /\ UNCHANGED <<stores, queue, now, event_timeout, aside, tasks, slept, count,
                   timestamp, event_keys, locals, lastLog>>

\* lines 55-72: the cache is connected, both resetter tasks are spawned
ConnectCacheOk ==
    /\ pc = "connect_cache"
    /\ resetter' = [r \in Resetters |-> "del"]
    /\ pc' = "connect_context"
    /\ UNCHANGED <<stores, queue, now, event_timeout, aside, del_result, counters, slept,
                   run_result, count, timestamp, event_keys, locals, lastLog>>

\* lines 74-76: the context database client fails, and `?` returns the error
ConnectContextErr ==
    /\ pc = "connect_context"
    /\ pc' = "returned"
    /\ run_result' = "Could not connect to mongodb"
    /\ UNCHANGED <<stores, queue, now, event_timeout, aside, tasks, slept, count,
                   timestamp, event_keys, locals, lastLog>>

\* lines 74-83
ConnectContextOk ==
    /\ pc = "connect_context"
    /\ pc' = "connect_events"
    /\ UNCHANGED <<stores, queue, now, event_timeout, aside, tasks, slept,
                   run_result, count, timestamp, event_keys, locals, lastLog>>

\* lines 84-86: the event database client fails, and `?` returns the error
ConnectEventsErr ==
    /\ pc = "connect_events"
    /\ pc' = "returned"
    /\ run_result' = "Could not connect to events db"
    /\ UNCHANGED <<stores, queue, now, event_timeout, aside, tasks, slept, count,
                   timestamp, event_keys, locals, lastLog>>

\* lines 84-98: MongoStore::new returns Ok always (algebra/store.rs, line 65)
ConnectEventsOk ==
    /\ pc = "connect_events"
    /\ pc' = "loop_head"
    /\ UNCHANGED <<stores, queue, now, event_timeout, aside, tasks, slept,
                   run_result, count, timestamp, event_keys, locals, lastLog>>

\* mutant: the del removes the work queue with the counter key
ResetterDelOk_Queue(r) ==
    /\ resetter[r] = "del"
    /\ counters' = counters \ {r}
    /\ queue' = <<>>
    /\ del_result' = [del_result EXCEPT ![r] = "Ok"]
    /\ resetter' = [resetter EXCEPT ![r] = "sleep"]
    /\ UNCHANGED <<stores, now, event_timeout, aside, slept, run_result, pc,
                   count, timestamp, event_keys, locals, lastLog>>

\* lines 60 and 69: del(key) succeeds; the result is dropped; the task sleeps
ResetterDelOk(r) ==
    /\ resetter[r] = "del"
    /\ counters' = counters \ {r}
    /\ del_result' = [del_result EXCEPT ![r] = "Ok"]
    /\ resetter' = [resetter EXCEPT ![r] = "sleep"]
    /\ UNCHANGED <<stores, queue, now, event_timeout, aside, slept, run_result, pc,
                   count, timestamp, event_keys, locals, lastLog>>

\* mutant: del(key) fails, and the task ends
ResetterDelErr_Stop(r) ==
    /\ resetter[r] = "del"
    /\ del_result' = [del_result EXCEPT ![r] = "Err"]
    /\ resetter' = [resetter EXCEPT ![r] = "off"]
    /\ UNCHANGED <<stores, queue, now, event_timeout, aside, counters, slept,
                   run_result, pc, count, timestamp, event_keys, locals, lastLog>>

\* lines 60 and 69: del(key) fails; the result is dropped; the task sleeps
ResetterDelErr(r) ==
    /\ resetter[r] = "del"
    /\ del_result' = [del_result EXCEPT ![r] = "Err"]
    /\ resetter' = [resetter EXCEPT ![r] = "sleep"]
    /\ UNCHANGED <<stores, queue, now, event_timeout, aside, counters, slept,
                   run_result, pc, count, timestamp, event_keys, locals, lastLog>>

\* lines 61 and 70: the sleep of the task is over
ResetterWake(r) ==
    /\ resetter[r] = "sleep"
    /\ resetter' = [resetter EXCEPT ![r] = "del"]
    /\ del_result' = [del_result EXCEPT ![r] = ""]
    /\ UNCHANGED <<stores, queue, now, event_timeout, aside, counters, slept,
                   run_result, pc, count, timestamp, event_keys, locals, lastLog>>

\* the services that count their throughput write the counter keys
CountThroughput ==
    /\ \E r \in Resetters : r \notin counters /\ counters' = counters \cup {r}
    /\ UNCHANGED <<stores, queue, now, event_timeout, aside, resetter, del_result, slept,
                   run_result, pc, count, timestamp, event_keys, locals, lastLog>>

(***************************************************************************)
(* Initial states: the stores as the executor of the jobs can have left    *)
(* them.  Every context document of an event key carries that key, and a   *)
(* child map is keyed by the key of the context it embeds.                 *)
(***************************************************************************)
\* the copy of a child a parent embedded when it made its transition
EmbeddedPipeline(e, p) ==
    PipelineContext(e, p, Leaf("New"), "Succeeded", MsPerSec \div 10)

EmbeddedExtractor(e, p, x) ==
    ExtractorContext(e, p, x, Leaf("New"), "Succeeded", MsPerSec \div 10)

ProcessingPipelines(e, ps) ==
    Stage("ProcessingPipelines", [p \in ps |-> EmbeddedPipeline(e, p)])

ExecutingExtractors(e, p, xs) ==
    Stage("ExecutingExtractors", [x \in xs |-> EmbeddedExtractor(e, p, x)])

\* times before the first cutoff; Recent is inside the first window
Old == MsPerSec
Mid == MsPerSec + MsPerSec \div 2
Stale == 2 * MsPerSec
Recent == StartTime

\* the histories of one event key
Histories(e) ==
    { \* no document
      {},
      \* a root context without children
      {RootContext(e, Leaf("New"), "Succeeded", Old)},
      \* a root context that goes stale when the clock advances
      {RootContext(e, Leaf("New"), "Succeeded", Recent)},
      \* finished, dropped
      {RootContext(e, Leaf("New"), "Succeeded", Old),
       RootContext(e, Leaf("Finished"), "Succeeded", Stale)},
      {RootContext(e, Leaf("New"), "Succeeded", Old),
       RootContext(e, Leaf("New"), "Dropped", Stale)},
      \* two root contexts of the same timestamp
      {RootContext(e, Leaf("New"), "Succeeded", Old),
       RootContext(e, Leaf("New"), "Failed", Old)},
      \* pipeline contexts without a root context
      {PipelineContext(e, "p1", Leaf("New"), "Succeeded", Old)},
      \* one pipeline, never started
      {RootContext(e, ProcessingPipelines(e, {"p1"}), "Succeeded", Old)},
      \* one pipeline, two snapshots
      {RootContext(e, ProcessingPipelines(e, {"p1"}), "Succeeded", Stale),
       PipelineContext(e, "p1", Leaf("New"), "Succeeded", Old),
       PipelineContext(e, "p1", Leaf("Finished"), "Succeeded", Mid)},
      \* two pipelines, the second one missing
      {RootContext(e, ProcessingPipelines(e, {"p1", "p2"}), "Succeeded", Stale),
       PipelineContext(e, "p1", Leaf("New"), "Succeeded", Old)},
      \* two pipelines, one executing an extractor
      {RootContext(e, ProcessingPipelines(e, {"p1", "p2"}), "Succeeded", Stale),
       PipelineContext(e, "p1", Leaf("New"), "Succeeded", Old),
       PipelineContext(e, "p2", ExecutingExtractors(e, "p2", {"x1"}), "Succeeded", Mid),
       ExtractorContext(e, "p2", "x1", Leaf("Finished"), "Succeeded", Old)},
      \* one pipeline executing two extractors, the second one missing
      {RootContext(e, ProcessingPipelines(e, {"p1"}), "Succeeded", Stale),
       PipelineContext(e, "p1", ExecutingExtractors(e, "p1", {"x1", "x2"}), "Succeeded", Mid),
       ExtractorContext(e, "p1", "x1", Leaf("New"), "Succeeded", Old)},
      \* dropped, and a pipeline context written after that
      {RootContext(e, ProcessingPipelines(e, {"p1"}), "Dropped", Old),
       PipelineContext(e, "p1", Leaf("New"), "Succeeded", Mid)} }

\* the histories of a second event key
OtherHistories(e) ==
    { {},
      {RootContext(e, Leaf("New"), "Succeeded", Old)},
      {RootContext(e, ProcessingPipelines(e, {"p1"}), "Succeeded", Stale),
       PipelineContext(e, "p1", Leaf("New"), "Succeeded", Old)},
      \* a document without an event key
      {RootContext(NullId, Leaf("New"), "Succeeded", Old)} }

\* a payload another producer left in the queue
OtherPayload == <<"other">>

\* no join_all in progress, no other producer at work, no access key parsed
InitAside ==
    /\ in_flight = {}
    /\ fetched = <<>>
    /\ other_pc = "idle"
    /\ other_payload = <<>>
    /\ access_key = <<>>
    /\ encrypted = [ok |-> FALSE, error |-> "not parsed"]
    /\ displayed = <<>>

InitLocals ==
    /\ pc = "loop_head"
    /\ count = 0
    /\ timestamp = 0
    /\ event_keys = <<>>
    /\ event_key = NoKey
    /\ root_context = NullDoc
    /\ results = <<>>
    /\ context = NullDoc
    /\ ext_results = <<>>
    /\ payload = <<>>
    /\ lastLog = ""
    /\ run_result = ""
    /\ slept = FALSE
    /\ resetter = [r \in Resetters |-> "del"]
    /\ del_result = [r \in Resetters |-> ""]
    /\ counters = {}

Init ==
    /\ \E h1 \in Histories("e1"), h2 \in OtherHistories("e2") :
          contextLog = h1 \cup h2
    /\ eventStore \in {{Event("e1"), Event("e2")}, {Event("e2")}}
    /\ queue \in {<<>>, <<OtherPayload>>}
    /\ now = StartTime
    /\ event_timeout = 1
    /\ InitLocals
    /\ InitAside

Next ==
    \/ AggregateOk
    \/ AggregateErr
    \/ TryNextErr
    \/ TryNextNone
    \/ TryNextNoId
    \/ TryNextSome
    \/ FindRootErr
    \/ FindRootNone
    \/ FindRootSome
    \/ JoinPipelines
    \/ PipelinesDone
    \/ PipelineErr
    \/ PipelineNone
    \/ PipelineSome
    \/ JoinExtractors
    \/ ExtractorErr
    \/ ExtractorNone
    \/ ExtractorSome
    \/ ExtractorsDone
    \/ GetEventErr
    \/ GetEventNone
    \/ GetEventSome
    \/ SerializeErr
    \/ LposErr
    \/ LposSome
    \/ LposNone
    \/ LpushOk
    \/ LpushErr
    \/ Sleep
    \/ Tick
    \/ Consume

Spec == Init /\ [][Next]_vars

(***************************************************************************)
(* The stall detector alone: one cycle's aggregation over every log of at  *)
(* most MaxDocs documents of one event key, for every liveness window of   *)
(* 1..MaxTimeout seconds, with timestamps just before, at and just after   *)
(* the cutoff.                                                             *)
(***************************************************************************)
DetectKey == "e1"

DetectDocs(cutoff) ==
    {[type |-> ty, eventKey |-> DetectKey, pipelineKey |-> NoKey,
      extractorKey |-> NoKey, stage |-> Leaf(tag), status |-> st,
      timestamp |-> ts] :
        ty \in {"root", "pipeline"}, tag \in {"New", "Finished"},
        st \in Statuses, ts \in {cutoff - 1, cutoff, cutoff + 1}}

InitDetect ==
    /\ event_timeout \in 1..MaxTimeout
    /\ now = StartTime + MaxTimeout * MsPerSec
    /\ \E n \in 0..MaxDocs :
          \E f \in [1..n -> DetectDocs(Cutoff(now, event_timeout))] :
             contextLog = Range(f)
    /\ eventStore = {}
    /\ queue = <<>>
    /\ InitLocals
    /\ InitAside

NextDetect ==
    \/ AggregateOk
    \/ AggregateErr

SpecDetect == InitDetect /\ [][NextDetect]_vars

\* the greatest timestamp among the documents of an event key
MaxTimestamp(e) == Max({d.timestamp : d \in Group(contextLog, e)})

\* the most recent documents of an event key
MostRecent(e) == {d \in Group(contextLog, e) : d.timestamp = MaxTimestamp(e)}

\* the aggregation of this cycle returned the event key
Flagged(e) == \E i \in DOMAIN event_keys : event_keys[i]._id = e

Unfinished(d) == d.stage.tag # "Finished"
Succeeded(d) == d.status = "Succeeded"

\* the aggregation of the cycle has run, and no row was taken from its cursor
Detected == pc = "try_next" /\ lastLog = "" /\ event_key = NoKey /\ count = 0

(***************************************************************************)
(* C1 (as stated): the event key is flagged iff its greatest timestamp is  *)
(* older than now - W, and its most recent document is unfinished and      *)
(* Succeeded.                                                              *)
(***************************************************************************)
C1_StalledIffOlder ==
    Detected =>
        /\ Flagged(DetectKey) =>
              /\ Group(contextLog, DetectKey) # {}
              /\ MaxTimestamp(DetectKey) < now - event_timeout * MsPerSec
              /\ \E d \in MostRecent(DetectKey) : Unfinished(d) /\ Succeeded(d)
        /\ ~Flagged(DetectKey) =>
              \/ Group(contextLog, DetectKey) = {}
              \/ ~(MaxTimestamp(DetectKey) < now - event_timeout * MsPerSec)
              \/ \E d \in MostRecent(DetectKey) : ~(Unfinished(d) /\ Succeeded(d))

(***************************************************************************)
(* C1 (amended): the event key is flagged iff its greatest timestamp is    *)
(* not later than now - W (older than or equal to it), and its most recent *)
(* document (one of them, when several share the greatest timestamp) is    *)
(* unfinished and Succeeded.                                               *)
(***************************************************************************)
C1_StalledIffNotLater ==
    Detected =>
        /\ Flagged(DetectKey) =>
              /\ Group(contextLog, DetectKey) # {}
              /\ MaxTimestamp(DetectKey) <= now - event_timeout * MsPerSec
              /\ \E d \in MostRecent(DetectKey) : Unfinished(d) /\ Succeeded(d)
        /\ ~Flagged(DetectKey) =>
              \/ Group(contextLog, DetectKey) = {}
              \/ MaxTimestamp(DetectKey) > now - event_timeout * MsPerSec
              \/ \E d \in MostRecent(DetectKey) : ~(Unfinished(d) /\ Succeeded(d))

\* an event key flagged with two documents, the older one finished
C1_Witness ==
    /\ Detected
    /\ Flagged(DetectKey)
    /\ Cardinality(contextLog) = 2
    /\ \E d \in contextLog : ~Unfinished(d) /\ d.timestamp < MaxTimestamp(DetectKey)
    /\ MaxTimestamp(DetectKey) = now - event_timeout * MsPerSec

(***************************************************************************)
(* C2: an event key whose most recent document is Dropped or Failed is     *)
(* never returned by the stall detector, however old that document is and  *)
(* whatever its stage is.                                                  *)
(***************************************************************************)
C2_DroppedNeverCandidate ==
    Detected =>
        \A e \in GroupIds(contextLog) :
            (\A d \in MostRecent(e) : d.status \in {"Dropped", "Failed"})
                => ~Flagged(e)

\* a stale, unfinished event key whose latest document is Dropped, after a
\* Succeeded one, and that the detector did not return
C2_Witness ==
    /\ Detected
    /\ ~Flagged(DetectKey)
    /\ Group(contextLog, DetectKey) # {}
    /\ \A d \in MostRecent(DetectKey) : d.status = "Dropped" /\ Unfinished(d)
    /\ MaxTimestamp(DetectKey) <= timestamp
    /\ \E d \in contextLog : Succeeded(d) /\ d.timestamp < MaxTimestamp(DetectKey)

(***************************************************************************)
(* What the context log holds now for each scope, stated apart from the    *)
(* fetches of run().                                                       *)
(***************************************************************************)
CurrentOf(docs) == {d \in docs : ~\E o \in docs : o.timestamp > d.timestamp}

RootDocs(e) ==
    {d \in contextLog : d.type = "root" /\ d.eventKey = e}

PipelineDocs(e, k) ==
    {d \in contextLog : d.type = "pipeline" /\ d.eventKey = e /\ d.pipelineKey = k}

ExtractorDocs(e, k, x) ==
    {d \in contextLog : /\ d.type = "extractor" /\ d.eventKey = e
                        /\ d.pipelineKey = k /\ d.extractorKey = x}

\* the maps over keys whose every entry is a current document of its scope
FreshExtractorMaps(e, k, keys) ==
    {m \in [keys -> contextLog] :
        \A x \in keys : m[x] \in CurrentOf(ExtractorDocs(e, k, x))}

\* the current pipeline contexts of (e, k), their extractor maps refreshed
FreshPipelines(e, k) ==
    UNION {IF d.stage.tag = "ExecutingExtractors"
           THEN {[d EXCEPT !.stage.map = m] :
                    m \in FreshExtractorMaps(e, k, DOMAIN d.stage.map)}
           ELSE {d}
           : d \in CurrentOf(PipelineDocs(e, k))}

\* every entry of the root's pipeline map is fresh
FullyRefreshed(root) ==
    root.stage.tag = "ProcessingPipelines" =>
        \A k \in DOMAIN root.stage.map :
            root.stage.map[k] \in FreshPipelines(root.eventKey, k)

\* the root contexts an envelope of e may hold
FreshRoots(e) ==
    {r \in UNION {IF d.stage.tag = "ProcessingPipelines"
                  THEN {[d EXCEPT !.stage.map = m] :
                           m \in [DOMAIN d.stage.map ->
                                     UNION {FreshPipelines(e, k) : k \in DOMAIN d.stage.map}]}
                  ELSE {d}
                  : d \in CurrentOf(RootDocs(e))} :
        FullyRefreshed(r)}

EventKeys == {d.eventKey : d \in contextLog} \ {NullId}

\* the payloads of the envelopes that hold a fully refreshed tree
FreshPayloads ==
    UNION {UNION {Serialize(Event(e), r) : r \in FreshRoots(e)} : e \in EventKeys}

\* run() has built, or is about to build, the envelope of event_key
AtEnvelope == pc \in {"get_event", "lpos", "lpush"}

(***************************************************************************)
(* C3: a root context that reaches the envelope has every pipeline entry   *)
(* replaced by the current pipeline context (and every extractor entry of  *)
(* an ExecutingExtractors pipeline by the current extractor context); a    *)
(* mix of stale and fresh entries is never serialized nor queued.          *)
(***************************************************************************)
C3_NoPartialTree ==
    /\ AtEnvelope => root_context \in FreshRoots(event_key)
    /\ pc \in {"lpos", "lpush"} =>
          payload \in Serialize(Event(event_key), root_context)
    /\ \A i \in DOMAIN queue :
          queue[i] = OtherPayload \/ queue[i] \in FreshPayloads

\* the envelope of a root with two pipelines, one of them executing an
\* extractor, is about to be pushed
C3_Witness ==
    /\ pc = "lpush"
    /\ root_context.stage.tag = "ProcessingPipelines"
    /\ Cardinality(DOMAIN root_context.stage.map) = 2
    /\ \E k \in DOMAIN root_context.stage.map :
          /\ root_context.stage.map[k].stage.tag = "ExecutingExtractors"
          /\ \A x \in DOMAIN root_context.stage.map[k].stage.map :
                root_context.stage.map[k].stage.map[x] \in contextLog
    /\ \A k \in DOMAIN root_context.stage.map :
          root_context.stage.map[k] # EmbeddedPipeline(event_key, k)

(***************************************************************************)
(* C4: from the moment one of the joined child fetches of an event key has *)
(* failed (no document, or an error), no push is made until the event key  *)
(* is abandoned, and abandoning it leaves the cursor and the tally as they *)
(* are, so that the other candidates of the cycle are still processed.     *)
(***************************************************************************)
Failed(r) == ~r.ok \/ r.doc = NullDoc

ChildFetchFailed ==
    \/ \E i \in DOMAIN results : Failed(results[i])
    \/ \E i \in DOMAIN ext_results : Failed(ext_results[i])

Abandoned ==
    /\ pc' = "try_next"
    /\ event_key' = NoKey
    /\ event_keys' = event_keys
    /\ count' = count
    /\ queue' = queue

C4_FailClosedFanOut ==
    [][ChildFetchFailed =>
          /\ Len(queue') <= Len(queue)
          /\ ChildFetchFailed' \/ Abandoned]_vars

\* exactly one of two joined pipeline fetches failed, and another candidate
\* is still in the cursor
C4_Witness ==
    /\ pc = "pipeline_results"
    /\ Len(results) = 2
    /\ Cardinality({i \in DOMAIN results : Failed(results[i])}) = 1
    /\ event_keys # <<>>

(***************************************************************************)
(* C5: when the serialized envelope is in the queue already, the republish *)
(* guard whose position lookup succeeds pushes nothing and returns no      *)
(* error: the queue is left as it is, with exactly one entry of that       *)
(* payload, and the loop goes on with the next candidate.                  *)
(***************************************************************************)
Occurrences(q, p) == Cardinality({i \in DOMAIN q : q[i] = p})

C5_RepublishIdempotent ==
    [][(/\ pc = "lpos"
        /\ Occurrences(queue, payload) > 0
        /\ pc' # "lpos"
        /\ run_result' # "io_err")
          => /\ pc' = "try_next"
             /\ queue' = queue
             /\ Occurrences(queue', payload) = 1
             /\ count' = count
             /\ run_result' = ""]_vars

\* the second run on an envelope found its payload in the queue
C5_Witness ==
    /\ lastLog = "Unresponsive context is already in redis"
    /\ pc = "try_next"
    /\ \E i \in DOMAIN queue : queue[i] # OtherPayload

(***************************************************************************)
(* C6: with the watchdog as the only producer and consumers removing       *)
(* entries at any time, the queue never holds two equal payloads.          *)
(***************************************************************************)
C6_NoDuplicatePayload ==
    \A i, j \in DOMAIN queue : queue[i] = queue[j] => i = j

\* two envelopes are queued, and a later run found its payload queued
C6_Witness ==
    /\ Cardinality({i \in DOMAIN queue : queue[i] # OtherPayload}) >= 2
    /\ lastLog = "Unresponsive context is already in redis"

(***************************************************************************)
(* C7: when the root context, a pipeline context, an extractor context or  *)
(* the event of a candidate does not exist, the step run() takes skips     *)
(* the candidate: nothing is pushed, the tally and the cursor are left as  *)
(* they are, and the loop goes on with the rest of the cycle.              *)
(***************************************************************************)
MissingDocument ==
    \/ pc = "find_root" /\ RootDocs(event_key) = {}
    \/ pc = "pipeline_results" /\ results # <<>> /\ Head(results) = None
    \/ pc = "extractor_results" /\ ext_results # <<>> /\ Head(ext_results) = None
    \/ pc = "get_event" /\ Event(event_key) \notin eventStore /\ run_result' = ""

\* run() has taken a step
RunStepped == <<pc, results, ext_results, lastLog>>' # <<pc, results, ext_results, lastLog>>

C7_MissingDocumentSkips ==
    [][MissingDocument /\ RunStepped => Abandoned /\ run_result' = ""]_vars

\* the event of a candidate was missing, and another candidate is left
C7_Witness ==
    /\ lastLog = "Event does not exist"
    /\ pc = "try_next"
    /\ event_keys # <<>>
    /\ queue = <<>>

(***************************************************************************)
(* C8 (as stated): a failed event lookup skips the candidate and the poll  *)
(* loop continues: run() never returns on it.                              *)
(***************************************************************************)
C8_EventErrorSkips ==
    run_result # "could not fetch event for context"

(***************************************************************************)
(* C9 (as stated): a failed position lookup skips the candidate and the    *)
(* poll loop continues: run() never returns on it.                         *)
(***************************************************************************)
C9_LposErrorSkips ==
    run_result # "io_err"

(***************************************************************************)
(* C10: the step run() takes at the push either pushes the payload to the  *)
(* head and adds one to the tally, or (the push failed) leaves the queue   *)
(* and the tally as they are; in both cases the loop goes on with the rest *)
(* of the cycle.                                                           *)
(***************************************************************************)
C10_PushFailureGoesOn ==
    [][pc = "lpush" /\ RunStepped =>
          /\ pc' = "try_next"
          /\ run_result' = ""
          /\ event_keys' = event_keys
          /\ \/ queue' = <<payload>> \o queue /\ count' = count + 1
             \/ queue' = queue /\ count' = count]_vars

\* a push failed, and another candidate is left
C10_Witness ==
    /\ lastLog = "Could not publish event to redis"
    /\ pc = "try_next"
    /\ count = 0
    /\ event_keys # <<>>

(***************************************************************************)
(* C11: when the aggregation fails, the cycle has no candidate: the step   *)
(* touches neither the stores nor the queue, and leaves run() at the head  *)
(* of its loop, without a row, an event key or an envelope, and running:   *)
(* what it does next is the aggregation of a new cycle.                    *)
(***************************************************************************)
QueryFailed == "Failed to fetch event keys"

C11_FailedQueryNoCandidates ==
    [][lastLog' = QueryFailed =>
          /\ pc' = "loop_head"
          /\ run_result' = ""
          /\ event_keys' = <<>>
          /\ count' = 0
          /\ event_key' = NoKey /\ root_context' = NullDoc /\ payload' = <<>>
          /\ lastLog # QueryFailed => queue' = queue /\ UNCHANGED stores]_vars

\* the aggregation of a later cycle failed, with an envelope in the queue
C11_Witness ==
    /\ lastLog = QueryFailed
    /\ pc = "loop_head"
    /\ \E i \in DOMAIN queue : queue[i] # OtherPayload

(***************************************************************************)
(* A run of the stall detector: the aggregation of lines 99-152.           *)
(***************************************************************************)
StallDetection == AggregateOk \/ AggregateErr

(***************************************************************************)
(* C12: between a failed aggregation and the next aggregation the loop     *)
(* sleeps for poll_duration: the aggregation that follows a failed one     *)
(* starts after the sleep of line 294.                                     *)
(***************************************************************************)
C12_NoSleepSkipped ==
    [][(lastLog = QueryFailed /\ StallDetection) => slept]_vars

(***************************************************************************)
(* C13: every run of the stall detector, the first one after startup       *)
(* included, is preceded by the sleep of poll_duration.                    *)
(***************************************************************************)
C13_SleepBeforeDetection ==
    [][StallDetection => slept]_vars

(***************************************************************************)
(* C14: the poll loop has no terminal state: whatever the stores, the      *)
(* cursor and the queue return after startup, run() does not return.       *)
(***************************************************************************)
C14_NoTerminalState == pc # "returned"

(***************************************************************************)
(* C15: the tally of a cycle is the number of pushes of the cycle.  The    *)
(* tally starts at 0 with the aggregation of the cycle, and from then on   *)
(* a step adds 1 to it exactly when it pushes one entry to the queue; the  *)
(* step of a candidate whose payload is in the queue already pushes        *)
(* nothing and adds 0, and the tally is logged only when it is positive.   *)
(***************************************************************************)
Pushed == Len(queue') > Len(queue)

C15_TallyCountsPushes ==
    [][/\ StallDetection => count' = 0
       /\ ~StallDetection =>
             /\ Pushed <=> count' = count + 1
             /\ ~Pushed => count' = count
       /\ Pushed => Len(queue') = Len(queue) + 1 /\ pc = "lpush"
       /\ (pc = "lpos" /\ Lpos(queue, payload) >= 0 /\ pc' # pc) =>
             count' = count /\ queue' = queue
       /\ lastLog' = "Republished new events" => count' > 0]_vars

\* a cycle that pushed one candidate, and skipped another one whose payload
\* was in the queue
C15_Witness ==
    /\ count = 1
    /\ lastLog = "Unresponsive context is already in redis"
    /\ pc = "try_next"

(***************************************************************************)
(* C16: a push happens with the payload absent from the queue, puts the    *)
(* payload at the head of the queue (index 0 of the list), and leaves the  *)
(* entries the queue had behind it, all of them and in their order.        *)
(***************************************************************************)
C16_PushAtHead ==
    [][Pushed =>
          /\ Lpos(queue, payload) < 0
          /\ Lpos(queue', payload) = 0
          /\ Head(queue') = payload
          /\ Tail(queue') = queue]_vars

\* two pushes of one cycle, on top of the entry the queue had
C16_Witness ==
    /\ count = 2
    /\ Len(queue) = 3
    /\ queue[3] = OtherPayload
    /\ queue[1] # queue[2]

(***************************************************************************)
(* run() from its first line, with the two counter resetter tasks it       *)
(* spawns.  The tokio runtime schedules every spawned task, a sleep ends   *)
(* and a del returns: each resetter step is weakly fair.  Nothing is       *)
(* assumed of the steps of run() itself.                                   *)
(***************************************************************************)
PollLoop ==
    \/ AggregateOk
    \/ AggregateErr
    \/ TryNextErr
    \/ TryNextNone
    \/ TryNextNoId
    \/ TryNextSome
    \/ FindRootErr
    \/ FindRootNone
    \/ FindRootSome
    \/ JoinPipelines
    \/ PipelinesDone
    \/ PipelineErr
    \/ PipelineNone
    \/ PipelineSome
    \/ JoinExtractors
    \/ ExtractorErr
    \/ ExtractorNone
    \/ ExtractorSome
    \/ ExtractorsDone
    \/ GetEventErr
    \/ GetEventNone
    \/ GetEventSome
    \/ SerializeErr
    \/ LposErr
    \/ LposSome
    \/ LposNone
    \/ LpushOk
    \/ LpushErr
    \/ Sleep

Startup ==
    \/ ConnectCacheErr
    \/ ConnectCacheOk
    \/ ConnectContextErr
    \/ ConnectContextOk
    \/ ConnectEventsErr
    \/ ConnectEventsOk

ResetterStep(r) ==
    \/ ResetterDelOk(r)
    \/ ResetterDelErr(r)
    \/ ResetterWake(r)

\* the histories in which a pipeline has written its context
StartHistories(e) == {h \in Histories(e) : \E d \in h : d.type = "pipeline"}

InitStart ==
    /\ \E h1 \in StartHistories("e1") :
          contextLog = h1 \cup {RootContext(NullId, Leaf("New"), "Succeeded", Old)}
    /\ eventStore \in {{Event("e1")}, {}}
    /\ queue = <<>>
    /\ now = StartTime
    /\ event_timeout = 1
    /\ pc = "connect_cache"
    /\ count = 0
    /\ timestamp = 0
    /\ event_keys = <<>>
    /\ event_key = NoKey
    /\ root_context = NullDoc
    /\ results = <<>>
    /\ context = NullDoc
    /\ ext_results = <<>>
    /\ payload = <<>>
    /\ lastLog = ""
    /\ run_result = ""
    /\ slept = FALSE
    /\ resetter = [r \in Resetters |-> "off"]
    /\ InitAside
    /\ del_result = [r \in Resetters |-> ""]
    /\ counters = {}

NextStart ==
    \/ Startup
    \/ PollLoop
    \/ \E r \in Resetters : ResetterStep(r)
    \/ CountThroughput

SpecStart ==
    /\ InitStart
    /\ [][NextStart]_vars
    /\ \A r \in Resetters :
          /\ WF_vars(ResetterDelOk(r) \/ ResetterDelErr(r))
          /\ WF_vars(ResetterWake(r))

(***************************************************************************)
(* C17: a resetter that runs keeps running: a step of it, a failed del     *)
(* included, leaves it at its del or in its sleep, and changes neither the *)
(* other resetter nor anything run() reads or writes; and in every fair    *)
(* interleaving a resetter at its del gets to its sleep, and a resetter    *)
(* in its sleep, after a failed del as after a successful one, issues its  *)
(* next del.                                                               *)
(***************************************************************************)
run_vars == <<stores, queue, now, event_timeout, pc, count, timestamp,
              event_keys, locals, lastLog, run_result, slept>>

ResetterStepped(r) ==
    /\ resetter[r] # "off"
    /\ <<resetter[r], del_result[r]>>' # <<resetter[r], del_result[r]>>

C17_ResettersRunForever ==
    /\ [][\A r \in Resetters : ResetterStepped(r) =>
            /\ resetter'[r] \in {"del", "sleep"}
            /\ UNCHANGED run_vars
            /\ \A o \in Resetters \ {r} :
                  /\ resetter'[o] = resetter[o]
                  /\ del_result'[o] = del_result[o]]_vars
    /\ \A r \in Resetters :
          /\ (resetter[r] = "del") ~> (resetter[r] = "sleep")
          /\ (resetter[r] = "sleep") ~> (resetter[r] = "del")

\* one resetter sleeps after a failed del, while the other one sleeps after
\* a successful del and run() is about to push
C17_Witness ==
    /\ pc = "lpush"
    /\ \E r \in Resetters, o \in Resetters :
          /\ del_result[r] = "Err" /\ resetter[r] = "sleep" /\ r \in counters
          /\ del_result[o] = "Ok" /\ resetter[o] = "sleep"

(***************************************************************************)
(* C18: when one of the connections of the startup fails, nothing of the   *)
(* watchdog keeps running: no counter resetter task is alive, so that no   *)
(* del follows the failure.                                                *)
(***************************************************************************)
StartupErrors ==
    {"could not connect to the cache", "Could not connect to mongodb",
     "Could not connect to events db"}

C18_StartupFailureStopsAll ==
    run_result \in StartupErrors => \A r \in Resetters : resetter[r] = "off"

(***************************************************************************)
(* The poll loop when every call of the stores, of the cursor and of the   *)
(* queue succeeds, and the payload can be serialized.  run() is a task of  *)
(* the tokio runtime and each of its awaits returns: the steps of the loop *)
(* are weakly fair.  The context log is not written to.                    *)
(***************************************************************************)
AllOk(rs) == \A i \in DOMAIN rs : rs[i].ok

RecoverLoop ==
    \/ AggregateOk
    \/ TryNextNone
    \/ TryNextNoId
    \/ TryNextSome
    \/ FindRootNone
    \/ FindRootSome
    \/ JoinPipelines /\ AllOk(results')
    \/ PipelinesDone
    \/ PipelineNone
    \/ PipelineSome
    \/ JoinExtractors /\ AllOk(ext_results')
    \/ ExtractorNone
    \/ ExtractorSome
    \/ ExtractorsDone
    \/ GetEventNone
    \/ GetEventSome
    \/ LposSome
    \/ LposNone
    \/ LpushOk
    \/ Sleep

InitRecover ==
    /\ \E h1 \in Histories("e1"), h2 \in OtherHistories("e2") :
          contextLog = h1 \cup h2
    /\ eventStore = {Event("e1")}
    /\ queue = <<>>
    /\ now = StartTime
    /\ event_timeout = 1
    /\ InitLocals
    /\ InitAside

NextRecover ==
    \/ RecoverLoop
    \/ Tick
    \/ Consume

SpecRecover ==
    /\ InitRecover
    /\ [][NextRecover]_vars
    /\ WF_vars(RecoverLoop)

(***************************************************************************)
(* C19: an event key that every aggregation flags from now on, whose tree  *)
(* has its current documents in the context log and whose event is in the  *)
(* event store, gets an envelope of that tree into the work queue.         *)
(***************************************************************************)
StallCandidate(e) ==
    \A rows \in AggregateResults(contextLog, Cutoff(now, event_timeout)) :
        \E row \in rows : row._id = e

Recoverable(e) ==
    /\ StallCandidate(e)
    /\ FreshRoots(e) # {}
    /\ Event(e) \in eventStore

PayloadsOf(e) == UNION {Serialize(Event(e), r) : r \in FreshRoots(e)}

Queued(e) == \E i \in DOMAIN queue : queue[i] \in PayloadsOf(e)

C19_RecoveryLiveness ==
    \A e \in {"e1", "e2"} : Recoverable(e) ~> Queued(e)

\* the envelope of a key that became a candidate when the clock advanced is
\* in the queue
C19_Witness ==
    /\ now > StartTime
    /\ \E e \in EventKeys :
          /\ Recoverable(e)
          /\ ~\E rows \in AggregateResults(contextLog, Cutoff(StartTime, event_timeout)) :
                \E row \in rows : row._id = e
          /\ Queued(e)

(***************************************************************************)
(* C20: a dropped job is not resurrected: run() builds no envelope around  *)
(* a root context whose status is Dropped, and no entry of the work queue  *)
(* is the payload of such an envelope, whatever the children of the root   *)
(* have written after it was dropped.                                      *)
(***************************************************************************)
DroppedRoots(e) == {r \in FreshRoots(e) : r.status = "Dropped"}

DroppedPayloads ==
    UNION {UNION {Serialize(Event(e), r) : r \in DroppedRoots(e)} : e \in EventKeys}

C20_DroppedNeverResurrected ==
    /\ AtEnvelope => root_context.status # "Dropped"
    /\ \A i \in DOMAIN queue : queue[i] \notin DroppedPayloads

(***************************************************************************)
(* EncryptedAccessKey (domain/access_key/encrypted_access_key.rs).  A      *)
(* string is the sequence of its characters.                               *)
(***************************************************************************)
MaxVersionLen == 2
MaxDataLen == 2

\* every string of at most n characters of the alphabet
StringsUpTo(alphabet, n) == UNION {[1..k -> alphabet] : k \in 0..n}

IndexOf(s, c) == CHOOSE i \in DOMAIN s : s[i] = c /\ \A j \in 1..(i - 1) : s[j] # c

RECURSIVE Splitn(_, _)
\* line 40: s.splitn(n, '_') for n >= 1, collected
Splitn(n, s) ==
    IF n = 1 \/ ~\E i \in DOMAIN s : s[i] = "_"
    THEN <<s>>
    ELSE <<SubSeq(s, 1, IndexOf(s, "_") - 1)>>
         \o Splitn(n - 1, SubSeq(s, IndexOf(s, "_") + 1, Len(s)))

Digits == <<"0", "1", "2", "3", "4", "5", "6", "7", "8", "9">>

DigitValue(c) == (CHOOSE i \in DOMAIN Digits : Digits[i] = c) - 1

RECURSIVE DecimalValue(_)
DecimalValue(s) ==
    IF s = <<>> THEN 0
    ELSE 10 * DecimalValue(SubSeq(s, 1, Len(s) - 1)) + DigitValue(s[Len(s)])

\* lines 61-64: str::parse of an integer type: an optional '+', then one
\* decimal digit or more, leading zeros allowed
ParseVersion(s) ==
    LET digits == IF s # <<>> /\ Head(s) = "+" THEN Tail(s) ELSE s
    IN  IF digits # <<>> /\ \A i \in DOMAIN digits : digits[i] \in Range(Digits)
        THEN [ok |-> TRUE, value |-> DecimalValue(digits)]
        ELSE [ok |-> FALSE, value |-> 0]

RECURSIVE DisplayVersion(_)
\* line 100: an integer written by {}: decimal, no sign, no leading zero
DisplayVersion(n) ==
    IF n < 10 THEN <<Digits[n + 1]>>
    ELSE DisplayVersion(n \div 10) \o <<Digits[(n % 10) + 1]>>

\* lines 41-47, with lines 117 and 122: "sk" is EventType::SecretKey
ParseEventType(s) ==
    IF s = <<"s", "k">> THEN [ok |-> TRUE, value |-> "SecretKey"]
    ELSE [ok |-> FALSE, value |-> "none"]

\* lines 48-54, with lines 116 and 122: "live" is Environment::Live
ParseEnvironment(s) ==
    IF s = <<"l", "i", "v", "e">> THEN [ok |-> TRUE, value |-> "Live"]
    ELSE [ok |-> FALSE, value |-> "none"]

ConfigurationError(msg) == [ok |-> FALSE, error |-> msg]

\* lines 38-75
Parse(key) ==
    LET parts == Splitn(4, key)
    IN  IF ~ParseEventType(parts[1]).ok
            THEN ConfigurationError("Invalid event type")
        ELSE IF Len(parts) < 2
            THEN ConfigurationError("No environment in access key")
        ELSE IF ~ParseEnvironment(parts[2]).ok
            THEN ConfigurationError("Invalid environment")
        ELSE IF Len(parts) < 3
            THEN ConfigurationError("No version in access key")
        ELSE IF ~ParseVersion(parts[3]).ok
            THEN ConfigurationError("Invalid version")
        ELSE IF Len(parts) < 4
            THEN ConfigurationError("No remainder in access key")
        ELSE [ok |-> TRUE,
              prefix |-> [environment |-> ParseEnvironment(parts[2]).value,
                          event_type |-> ParseEventType(parts[1]).value,
                          version |-> ParseVersion(parts[3]).value],
              data |-> parts[4]]

\* lines 149-153: the prefix is written as <event type>_<environment>_<version>
DisplayPrefix(prefix) ==
    (IF prefix.event_type = "SecretKey" THEN <<"s", "k">> ELSE <<"?">>)
    \o <<"_">>
    \o (IF prefix.environment = "Live" THEN <<"l", "i", "v", "e">> ELSE <<"?">>)
    \o <<"_">>
    \o DisplayVersion(prefix.version)

\* lines 98-102
to_string(key) == DisplayPrefix(key.prefix) \o <<"_">> \o key.data

(***************************************************************************)
(* An access key is parsed, and the parsed key is displayed.  The keys     *)
(* have the four parts that parse() asks for: their version is any short   *)
(* string of digits and '+', their data any short string with or without   *)
(* underscores.                                                            *)
(***************************************************************************)
AccessKeys ==
    {<<"s", "k", "_", "l", "i", "v", "e", "_">> \o version \o <<"_">> \o data :
        version \in StringsUpTo({"0", "1", "+"}, MaxVersionLen) \ {<<>>},
        data \in StringsUpTo({"a", "_"}, MaxDataLen)}

NotParsed == [ok |-> FALSE, error |-> "not parsed"]

InitKey ==
    /\ contextLog = {}
    /\ eventStore = {}
    /\ queue = <<>>
    /\ now = StartTime
    /\ event_timeout = 1
    /\ InitLocals
    /\ in_flight = {}
    /\ fetched = <<>>
    /\ other_pc = "idle"
    /\ other_payload = <<>>
    /\ access_key \in AccessKeys
    /\ encrypted = NotParsed
    /\ displayed = <<>>

\* EncryptedAccessKey::parse(access_key)
ParseKey ==
    /\ access_key # <<>>
    /\ encrypted = NotParsed
    /\ encrypted' = Parse(access_key)
    /\ UNCHANGED <<stores, queue, now, event_timeout, fanout, producer, tasks,
                   slept, run_result, pc, count, timestamp, event_keys, locals,
                   lastLog, access_key, displayed>>

\* encrypted.to_string()
DisplayKey ==
    /\ encrypted.ok
    /\ displayed = <<>>
    /\ displayed' = to_string(encrypted)
    /\ UNCHANGED <<stores, queue, now, event_timeout, fanout, producer, tasks,
                   slept, run_result, pc, count, timestamp, event_keys, locals,
                   lastLog, access_key, encrypted>>

NextKey ==
    \/ ParseKey
    \/ DisplayKey

SpecKey == InitKey /\ [][NextKey]_vars

(***************************************************************************)
(* C21: a key of the form <event type>_<environment>_<version>_<data>      *)
(* that parse() accepts is displayed as the string that was parsed, and    *)
(* its data is what follows the third underscore of that string.           *)
(***************************************************************************)
AfterThirdUnderscore(key) == Splitn(4, key)[4]

Greatest(d, docs) == d \in docs /\ \A o \in docs : o.timestamp <= d.timestamp

\* doc is the stored document stored, but for the values of its child map
RefreshOf(doc, stored) ==
    /\ DOMAIN doc.stage.map = DOMAIN stored.stage.map
    /\ [doc EXCEPT !.stage.map = stored.stage.map] = stored

C22_GreatestTimestampEntries ==
    (AtEnvelope /\ root_context.stage.tag = "ProcessingPipelines") =>
        /\ \E d \in RootDocs(event_key) : RefreshOf(root_context, d)
        /\ \A k \in DOMAIN root_context.stage.map :
              LET p == root_context.stage.map[k]
              IN  IF p.stage.tag = "ExecutingExtractors"
                  THEN /\ \E d \in PipelineDocs(event_key, k) :
                             /\ Greatest(d, PipelineDocs(event_key, k))
                             /\ RefreshOf(p, d)
                       /\ \A x \in DOMAIN p.stage.map :
                             Greatest(p.stage.map[x], ExtractorDocs(event_key, k, x))
                  ELSE Greatest(p, PipelineDocs(event_key, k))

\* the reconstruction chose among the two snapshots of a pipeline
C22_Witness ==
    /\ pc = "get_event"
    /\ root_context.stage.tag = "ProcessingPipelines"
    /\ \E k \in DOMAIN root_context.stage.map :
          /\ Cardinality(PipelineDocs(event_key, k)) = 2
          /\ root_context.stage.map[k] \in contextLog

(***************************************************************************)
(* C23: only the two stages in progress are refreshed.  run() is at the    *)
(* pipeline fetches or at their results only with a root context in        *)
(* ProcessingPipelines, and at extractor results only with a pipeline      *)
(* context in ExecutingExtractors; a root context in another stage is, in  *)
(* the envelope, the document that was fetched; and a fetched pipeline     *)
(* context in another stage becomes the entry of its key as it is, with no *)
(* extractor fetch.                                                        *)
(***************************************************************************)
AtPipelines == pc \in {"join_pipelines", "pipeline_results", "extractor_results"}

C23_LeavesNotRefreshed ==
    /\ [](AtPipelines => root_context.stage.tag = "ProcessingPipelines")
    /\ [](pc = "extractor_results" => context.stage.tag = "ExecutingExtractors")
    /\ []((AtEnvelope /\ root_context.stage.tag # "ProcessingPipelines") =>
             /\ root_context \in RootDocs(event_key)
             /\ pc \in {"lpos", "lpush"} =>
                   payload \in Serialize(Event(event_key), root_context))
    /\ [][(/\ pc = "pipeline_results" /\ results # <<>>
           /\ Head(results).ok /\ Head(results).doc # NullDoc
           /\ Head(results).doc.stage.tag # "ExecutingExtractors"
           /\ results' # results) =>
             /\ pc' = "pipeline_results"
             /\ ext_results' = <<>>
             /\ root_context'.stage.map[Head(results).doc.pipelineKey]
                   = Head(results).doc]_vars

\* the envelope of a root context without children is in the queue, and
\* a root context holds a fetched pipeline context that had no extractors
C23_Witness ==
    /\ pc = "get_event"
    /\ root_context.stage.tag = "ProcessingPipelines"
    /\ \E k \in DOMAIN root_context.stage.map :
          /\ root_context.stage.map[k].stage.tag # "ExecutingExtractors"
          /\ root_context.stage.map[k] \in PipelineDocs(event_key, k)
    /\ \E i \in DOMAIN queue : \E d \in contextLog :
          /\ d.type = "root" /\ d.stage.tag # "ProcessingPipelines"
          /\ queue[i] \in Serialize(Event(d.eventKey), d)

(***************************************************************************)
(* join_all, fetch by fetch (lines 188-199 and 210-219).  join_all polls   *)
(* every future it was given, the futures complete in any order, and it    *)
(* returns, in the order of the futures, once the last output is ready.    *)
(***************************************************************************)
\* lines 188-199: join_all(futs) is awaited: every pipeline fetch is issued
IssuePipelineFetches ==
    /\ pc = "join_pipelines"
    /\ in_flight' = DOMAIN root_context.stage.map
    /\ fetched' = <<>>
    /\ pc' = "await_pipelines"
    /\ lastLog' = ""
    /\ UNCHANGED <<stores, queue, now, event_timeout, producer, access, tasks,
                   slept, run_result, count, timestamp, event_keys, locals>>

\* a pipeline fetch completes
CompletePipelineFetch ==
    /\ pc = "await_pipelines"
    /\ \E k \in in_flight :
          /\ \E r \in PipelineFetches(contextLog, root_context.stage.map)[k] :
                fetched' = Insert(fetched, k, r)
          /\ in_flight' = in_flight \ {k}
    /\ UNCHANGED <<stores, queue, now, event_timeout, producer, access, tasks,
                   slept, run_result, pc, count, timestamp, event_keys, locals,
                   lastLog>>

\* mutant: the join returns as soon as an output is an error
Joined_FailFast(to, rs) ==
    /\ pc \in {"await_pipelines", "await_extractors"}
    /\ in_flight = {} \/ \E k \in DOMAIN fetched : ~fetched[k].ok
    /\ \E order \in SeqsOf(DOMAIN fetched) :
          rs = [i \in 1..Len(order) |-> fetched[order[i]]]
    /\ fetched' = <<>>
    /\ in_flight' = in_flight
    /\ pc' = to
    /\ lastLog' = ""

\* the last fetch has completed: join_all returns the outputs, in the
\* iteration order of the map; rs is the vector it returns
Joined(to, rs) ==
    /\ pc \in {"await_pipelines", "await_extractors"}
    /\ in_flight = {}
    /\ \E order \in SeqsOf(DOMAIN fetched) :
          rs = [i \in 1..Len(order) |-> fetched[order[i]]]
    /\ fetched' = <<>>
    /\ in_flight' = in_flight
    /\ pc' = to
    /\ lastLog' = ""

\* line 199
JoinedPipelines ==
    /\ pc = "await_pipelines"
    /\ Joined("pipeline_results", results')
    /\ UNCHANGED <<stores, queue, now, event_timeout, producer, access, tasks,
                   slept, run_result, count, timestamp, event_keys, event_key,
                   root_context, context, ext_results, payload>>

\* lines 202-219: a pipeline context in ExecutingExtractors: join_all(futs)
\* is awaited: every extractor fetch is issued
IssueExtractorFetches ==
    /\ pc = "pipeline_results"
    /\ results # <<>>
    /\ Head(results).ok /\ Head(results).doc # NullDoc
    /\ Head(results).doc.stage.tag = "ExecutingExtractors"
    /\ context' = Head(results).doc
    /\ results' = Tail(results)
    /\ in_flight' = DOMAIN Head(results).doc.stage.map
    /\ fetched' = <<>>
    /\ pc' = "await_extractors"
    /\ lastLog' = ""
    /\ UNCHANGED <<stores, queue, now, event_timeout, producer, access, tasks,
                   slept, run_result, count, timestamp, event_keys, event_key,
                   root_context, ext_results, payload>>

\* an extractor fetch completes
CompleteExtractorFetch ==
    /\ pc = "await_extractors"
    /\ \E x \in in_flight :
          /\ \E r \in ExtractorFetches(contextLog, context.stage.map)[x] :
                fetched' = Insert(fetched, x, r)
          /\ in_flight' = in_flight \ {x}
    /\ UNCHANGED <<stores, queue, now, event_timeout, producer, access, tasks,
                   slept, run_result, pc, count, timestamp, event_keys, locals,
                   lastLog>>

\* line 219
JoinedExtractors ==
    /\ pc = "await_extractors"
    /\ Joined("extractor_results", ext_results')
    /\ UNCHANGED <<stores, queue, now, event_timeout, producer, access, tasks,
                   slept, run_result, count, timestamp, event_keys, event_key,
                   root_context, results, context, payload>>

NextFanOut ==
    \/ AggregateOk
    \/ AggregateErr
    \/ TryNextErr
    \/ TryNextNone
    \/ TryNextNoId
    \/ TryNextSome
    \/ FindRootErr
    \/ FindRootNone
    \/ FindRootSome
    \/ IssuePipelineFetches
    \/ CompletePipelineFetch
    \/ JoinedPipelines
    \/ PipelinesDone
    \/ PipelineErr
    \/ PipelineNone
    \/ PipelineSome
    \/ IssueExtractorFetches
    \/ CompleteExtractorFetch
    \/ JoinedExtractors
    \/ ExtractorErr
    \/ ExtractorNone
    \/ ExtractorSome
    \/ ExtractorsDone
    \/ GetEventErr
    \/ GetEventNone
    \/ GetEventSome
    \/ SerializeErr
    \/ LposErr
    \/ LposSome
    \/ LposNone
    \/ LpushOk
    \/ LpushErr
    \/ Sleep

SpecFanOut == InitRecover /\ [][NextFanOut]_vars

(***************************************************************************)
(* C24: the fetches of a level are issued together, one per entry of the   *)
(* map, and a result is inspected only when none of them is in flight: an  *)
(* event key that is abandoned because a child fetch failed leaves no      *)
(* fetch in flight.                                                        *)
(***************************************************************************)
Inspecting == pc \in {"pipeline_results", "extractor_results"}

C24_AwaitAllThenFail ==
    /\ [](Inspecting => in_flight = {})
    /\ [](pc \in {"try_next", "sleep", "loop_head", "returned"} => in_flight = {})
    /\ [][(pc = "join_pipelines" /\ pc' # pc) =>
             in_flight' = DOMAIN root_context.stage.map]_vars
    /\ [][(pc # "await_extractors" /\ pc' = "await_extractors") =>
             in_flight' = DOMAIN context'.stage.map]_vars
    /\ [][(ChildFetchFailed /\ ~ChildFetchFailed') => in_flight' = {}]_vars

\* join_all returned two outputs, the first one an error and the second one
\* a document: the key is about to be abandoned, and no fetch is in flight
C24_Witness ==
    /\ pc = "pipeline_results"
    /\ Len(results) = 2
    /\ ~results[1].ok
    /\ results[2].ok /\ results[2].doc # NullDoc
    /\ in_flight = {}
    /\ fetched = <<>>

(***************************************************************************)
(* The poll loop with the executor of the jobs at work: a pipeline writes  *)
(* a new snapshot of its context, which differs from its last one in the   *)
(* timestamp.                                                              *)
(***************************************************************************)
MaxWrites == 1

\* the snapshots written since the watchdog started
Written == {d \in contextLog : d.type = "pipeline" /\ d.timestamp >= StartTime}

WriteContext ==
    /\ Cardinality(Written) < MaxWrites
    /\ \E d \in contextLog :
          /\ d.type = "pipeline"
          /\ d.timestamp < now
          /\ contextLog' = contextLog \cup {[d EXCEPT !.timestamp = now]}
    /\ UNCHANGED <<eventStore, queue, now, event_timeout, aside, tasks, slept,
                   run_result, pc, count, timestamp, event_keys, locals, lastLog>>

InitWriter ==
    /\ \E h1 \in StartHistories("e1") :
          contextLog = h1 \cup {RootContext(NullId, Leaf("New"), "Succeeded", Old)}
    /\ eventStore \in {{Event("e1")}, {}}
    /\ queue = <<>>
    /\ now = StartTime
    /\ event_timeout = 1
    /\ InitLocals
    /\ InitAside

NextWriter ==
    \/ PollLoop
    \/ Tick
    \/ WriteContext

SpecWriter == InitWriter /\ [][NextWriter]_vars

(***************************************************************************)
(* C25: the republish guard compares whole payloads.  A candidate is       *)
(* skipped only when its very payload is in the queue; when the queue      *)
(* holds another payload of the same event key, the payload is pushed all  *)
(* the same, and the queue then holds two entries of that event key.       *)
(***************************************************************************)
KeyOf(p) == IF Len(p) > 1 THEN p[2] ELSE NoKey

EntriesOf(q, e) == {i \in DOMAIN q : KeyOf(q[i]) = e}

C25_DedupOnFullPayload ==
    [][/\ (pc = "lpos" /\ pc' = "try_next") => Lpos(queue, payload) >= 0
       /\ (pc = "lpos" /\ Lpos(queue, payload) < 0 /\ pc' # pc) =>
             pc' \in {"lpush", "returned"}
       /\ (Pushed /\ EntriesOf(queue, event_key) # {}) =>
             /\ Cardinality(EntriesOf(queue', event_key)) > 1
             /\ \A i \in EntriesOf(queue, event_key) : queue[i] # queue'[1]]_vars

\* the queue holds an envelope of the tree as it is now, on top of an
\* envelope of the same event key built before a pipeline wrote its context
C25_Witness ==
    \E e \in EventKeys :
        /\ Cardinality(EntriesOf(queue, e)) = 2
        /\ queue[1] \in PayloadsOf(e)
        /\ queue[2] \notin PayloadsOf(e)
        /\ \E d \in contextLog : d.eventKey = e /\ d.timestamp = StartTime
                                 /\ d.type = "pipeline"

(***************************************************************************)
(* C26: no step of run() or of a counter resetter writes to the context    *)
(* log or to the event store.  The work queue changes only by the push of  *)
(* run(), which puts its payload at the head, and a counter key goes away  *)
(* only by the del of its resetter, which leaves the work queue alone.     *)
(***************************************************************************)
C26_ReadOnlyReconciler ==
    [][/\ UNCHANGED stores
       /\ queue' # queue =>
             /\ pc = "lpush"
             /\ queue' = <<payload>> \o queue
             /\ UNCHANGED tasks
       /\ \A r \in Resetters :
             /\ (r \in counters /\ r \notin counters') =>
                   /\ resetter[r] = "del"
                   /\ counters' = counters \ {r}
             /\ ResetterStepped(r) => queue' = queue]_vars

\* run() has pushed an envelope, a resetter has deleted its counter key, and
\* the stores are as they were
C26_Witness ==
    /\ \E i \in DOMAIN queue : queue[i] \in FreshPayloads
    /\ \E r \in Resetters :
          /\ del_result[r] = "Ok" /\ r \notin counters
          /\ Resetters \ {r} \subseteq counters
    /\ pc = "sleep"

(***************************************************************************)
(* C27: every aggregation computes its cutoff anew, as the clock in        *)
(* milliseconds minus 1000 times the window in seconds, and a document is  *)
(* recent only when its timestamp is greater than the cutoff: no returned  *)
(* key has a document later than the cutoff, and a key whose most recent   *)
(* documents are at the cutoff exactly, unfinished and Succeeded, is       *)
(* returned.                                                               *)
(***************************************************************************)
AtCutoff(e, cutoff) ==
    /\ e # NullId
    /\ \A d \in Group(contextLog, e) : d.timestamp <= cutoff
    /\ \E d \in Group(contextLog, e) : d.timestamp = cutoff
    /\ \A d \in Group(contextLog, e) :
          d.timestamp = cutoff => Unfinished(d) /\ Succeeded(d)

C27_StrictCutoff ==
    [][StallDetection =>
          /\ timestamp' = now - 1000 * event_timeout
          /\ \A i \in DOMAIN event_keys' :
                \A d \in Group(contextLog, event_keys'[i]._id) :
                    ~(d.timestamp > timestamp')
          /\ pc' = "try_next" =>
                \A e \in GroupIds(contextLog) :
                    AtCutoff(e, timestamp') =>
                        \E i \in DOMAIN event_keys' : event_keys'[i]._id = e]_vars

\* the aggregation of a later cycle returned a key whose latest document is
\* at the new cutoff, and was inside the window of the first cycle
C27_Witness ==
    /\ Detected
    /\ now = StartTime + MsPerSec
    /\ timestamp = StartTime
    /\ \E e \in GroupIds(contextLog) : AtCutoff(e, timestamp) /\ Flagged(e)

(***************************************************************************)
(* C28: the stall predicate reads the stage and the status of the most     *)
(* recent document of the event key, of whatever type.  A key whose most   *)
(* recent documents are Finished documents of a pipeline is not returned,  *)
(* however old, unfinished and Succeeded its root context is; and a key    *)
(* that is returned has a most recent document, of some type, that is      *)
(* unfinished and Succeeded.                                               *)
(***************************************************************************)
C28_LatestOfAnyType ==
    (Detected /\ Group(contextLog, DetectKey) # {}) =>
        /\ (\A d \in MostRecent(DetectKey) : d.type # "root" /\ ~Unfinished(d))
              => ~Flagged(DetectKey)
        /\ Flagged(DetectKey) =>
              \E d \in MostRecent(DetectKey) : Unfinished(d) /\ Succeeded(d)
        /\ (/\ MaxTimestamp(DetectKey) <= timestamp
            /\ \A d \in MostRecent(DetectKey) : Unfinished(d) /\ Succeeded(d))
              => Flagged(DetectKey)

\* the last document of the key is the Finished one of a pipeline, at the
\* cutoff; its root context is older, unfinished and Succeeded; the key is
\* not returned
C28_Witness ==
    /\ Detected
    /\ ~Flagged(DetectKey)
    /\ \E p \in contextLog, r \in contextLog :
          /\ p.type = "pipeline" /\ ~Unfinished(p) /\ p.timestamp = timestamp
          /\ r.type = "root" /\ Unfinished(r) /\ Succeeded(r)
          /\ r.timestamp < p.timestamp
          /\ Succeeded(p)

(***************************************************************************)
(* Two instances of the watchdog on one work queue.  The second instance   *)
(* runs the same republish guard, lines 267-287, on the envelopes of the   *)
(* same context log: its lpos and its lpush are two requests, and the      *)
(* requests of the first instance can come between them.                   *)
(***************************************************************************)
\* lines 267-279 of the other instance: lpos; the payload is not in the queue
OtherLposNone ==
    /\ other_pc = "idle"
    /\ \E p \in FreshPayloads :
          /\ Lpos(queue, p) < 0
          /\ other_payload' = p
    /\ other_pc' = "lpush"
    /\ UNCHANGED <<stores, queue, now, event_timeout, fanout, access, tasks,
                   slept, run_result, pc, count, timestamp, event_keys, locals,
                   lastLog>>

\* lines 284-285 of the other instance: lpush
OtherLpushOk ==
    /\ other_pc = "lpush"
    /\ queue' = Lpush(queue, other_payload)
    /\ other_payload' = <<>>
    /\ other_pc' = "idle"
    /\ UNCHANGED <<stores, now, event_timeout, fanout, access, tasks, slept,
                   run_result, pc, count, timestamp, event_keys, locals, lastLog>>

NextProducers ==
    \/ PollLoop
    \/ OtherLposNone
    \/ OtherLpushOk

SpecProducers == InitWriter /\ [][NextProducers]_vars

(***************************************************************************)
(* C29 (as stated): with two producers that run the republish guard on     *)
(* the same event keys at the same time, no payload is in the work queue   *)
(* twice.                                                                  *)
(***************************************************************************)
C29_NoIdenticalPayloads ==
    \A i \in DOMAIN queue : Occurrences(queue, queue[i]) = 1

(***************************************************************************)
(* The steps of one candidate, in the order of lines 165-284:              *)
(* reconstruction (1), event lookup and serialization (2), position lookup *)
(* (3), push (4); 0 is run() outside the candidate.                        *)
(***************************************************************************)
StepOf(p) ==
    CASE p \in {"find_root", "join_pipelines", "pipeline_results",
                "extractor_results"} -> 1
      [] p = "get_event" -> 2
      [] p = "lpos" -> 3
      [] p = "lpush" -> 4
      [] OTHER -> 0

\* the reconstruction of event_key ends well in this step
Reconstructed ==
    \/ /\ pc = "find_root"
       /\ RootDocs(event_key) # {}
       /\ root_context' \in CurrentOf(RootDocs(event_key))
       /\ root_context'.stage.tag # "ProcessingPipelines"
    \/ /\ pc = "pipeline_results"
       /\ results = <<>>
       /\ root_context.stage.tag = "ProcessingPipelines"
       /\ root_context' = root_context

(***************************************************************************)
(* C30: the steps of a candidate are taken in the order reconstruction,    *)
(* event lookup, serialization, position lookup, push, one after the       *)
(* other and never backwards; the event store is queried only for a key    *)
(* whose reconstruction succeeded, the queue is looked up only with the    *)
(* serialized envelope of an event that exists, and the push follows only  *)
(* a lookup that did not find the payload.                                 *)
(***************************************************************************)
C30_StepsInOrder ==
    [][/\ StepOf(pc') # 0 => StepOf(pc') \in {StepOf(pc), StepOf(pc) + 1}
       /\ (StepOf(pc) = 1 /\ StepOf(pc') = 2) => Reconstructed
       /\ (StepOf(pc) = 2 /\ StepOf(pc') = 3) =>
              /\ Event(event_key) \in eventStore
              /\ payload' \in Serialize(Event(event_key), root_context)
       /\ (StepOf(pc) = 3 /\ StepOf(pc') = 4) => Lpos(queue, payload) < 0
       /\ Pushed => StepOf(pc) = 4
       /\ StepOf(pc) # 0 => event_key' \in {event_key, NoKey}]_vars

\* the five steps were taken for a root context in ProcessingPipelines:
\* run() is about to push its envelope
C30_Witness ==
    /\ pc = "lpush"
    /\ root_context.stage.tag = "ProcessingPipelines"
    /\ Event(event_key) \in eventStore
    /\ payload \in Serialize(Event(event_key), root_context)
    /\ Lpos(queue, payload) < 0

====
